---------------------------- MODULE Spec2Model ----------------------------
(***************************************************************************)
(* motarem: the command-dispatch and caching actor (ControllerManager),    *)
(* the controller/axis capability model with the mock backend, and the     *)
(* admission and session model of the socket server.                       *)
(***************************************************************************)
EXTENDS Integers, Sequences, FiniteSets, TLC

(***************************************************************************)
(* Bounds of the model.                                                    *)
(***************************************************************************)
\* commands accepted by send_command in one run
MaxCmds == 3
\* ticks of the clock
MaxTime == 3
\* configuration: ManagerConfig.default_ttl, in ticks
default_ttl == 2
\* configuration: ManagerConfig.cache_capacity, in entries
cache_capacity == 2

\* capacity of the command channel, mpsc::channel::<Command>(100)
ChannelCapacity == 100

(***************************************************************************)
(* Values.                                                                 *)
(***************************************************************************)
\* Option<f64>
NoneF == [some |-> FALSE, v |-> 0]
SomeF(x) == [some |-> TRUE, v |-> x]

\* MovementParams (the custom map is only logged by the mock axis)
MovementParams(vel, acc, dec) == [velocity |-> vel, acceleration |-> acc, deceleration |-> dec]

\* Option<MovementParams>
NoParams == [given |-> FALSE, p |-> MovementParams(NoneF, NoneF, NoneF)]
SomeParams(p) == [given |-> TRUE, p |-> p]

\* serde_json::Value, as far as the manager builds it
JNull == [t |-> "null", n |-> 0, state |-> "", limit_switches |-> ""]
JNum(x) == [t |-> "number", n |-> x, state |-> "", limit_switches |-> ""]
JStatus(st, ls) == [t |-> "object", n |-> 0, state |-> st, limit_switches |-> ls]

\* anyhow::Result<Value>
NoList == <<>>
Ok(tag, val, list, names) == [ok |-> TRUE, msg |-> "", tag |-> tag, val |-> val, list |-> list, names |-> names]
Err(msg) == [ok |-> FALSE, msg |-> msg, tag |-> "", val |-> JNull, list |-> NoList, names |-> {}]
NoResult == [ok |-> FALSE, msg |-> "<none>", tag |-> "", val |-> JNull, list |-> NoList, names |-> {}]

(***************************************************************************)
(* The mock backend: MockController with the axes X, Y, Z.                 *)
(***************************************************************************)
\* the controller instances that can be registered; an instance's id is its name()
Instances == {"m1", "m2"}
NoCtrl == "<absent>"

\* MockController::new: X and Y support acceleration, Z does not
MockAxes == <<"X", "Y", "Z">>
AxisNames == {MockAxes[i] : i \in 1..Len(MockAxes)}
supports_acceleration(axis) == axis \in {"X", "Y"}

\* MockAxis::new
MockVelocity == 100
MockAcceleration == 1000
MockMaxPosition == 1000
MockMinPosition == -1000
NewAxis == [position |-> 0, state |-> "On"]

VARIABLES
    controllers,    \* the registry: name -> instance, or NoCtrl
    axes,           \* the backend: instance -> axis -> [position, state]
    cache,          \* the moka cache: key -> [val, at]
    queue,          \* the command channel
    loop_pc,        \* the dispatch loop: "recv", "handle", "sleep"; "stopped" once its task is gone
    cur,            \* the command the dispatch loop holds
    resp,           \* per command id: the oneshot response channel
    events,         \* the backend calls and responses made, in order, by command id
    last_done,      \* the last command answered: its result, the cache and the time it met
    nextId,         \* commands accepted so far, plus one
    now,            \* the clock
    admin,          \* the last register_controller or unregister_controller call: its
                    \* arguments, the registry before and after, its result, the shutdowns it made
    sleep_ms,       \* the milliseconds the last MockAxis::start slept, or is sleeping
    trait_call      \* the last call of a provided method of MotorController: the axes that
                    \* fail to stop, the call, the axis methods it called in order, its result

mvars == <<controllers, axes, cache, queue, loop_pc, cur, resp, events, last_done, nextId, now, admin,
           sleep_ms, trait_call>>

VARIABLES
    accept_pc,          \* the acceptance loop: "unstarted", "select", "accepted", "exited"
    accepted,           \* the connection the loop has accepted, and the count it loaded
    active_connections, \* the shared counter
    conn,               \* per connection: "idle", "backlog", "accepted", "declined", or where its
                        \* handler is: "select", "await", "send", "returned", "failed", "done"
    inbox,              \* per connection: the lines sent and not yet read by the handler
    outbox,             \* per connection: the responses written and not yet read by the client
    peer_closed,        \* per connection: the client has closed its end
    pending,            \* per connection: the request the handler is working on
    sig,                \* the broadcast receivers that hold an unread shutdown message
    socket_file,        \* the file at socket_path exists
    lines_sent,         \* lines sent by all clients so far
    session_log         \* per connection with a handler: the lines read and written, in order

svars == <<accept_pc, accepted, active_connections, conn, inbox, outbox, peer_closed, pending,
           sig, socket_file, lines_sent, session_log>>

vars == <<mvars, svars>>

(***************************************************************************)
(* Commands.                                                               *)
(***************************************************************************)
Cmd(kind, controller, axis, attr, target, params) ==
    [kind |-> kind, controller |-> controller, axis |-> axis, attr |-> attr,
     target |-> target, params |-> params, id |-> 0]
NoCmd == Cmd("<none>", "", "", "", 0, NoParams)

Move(c, a, target, params) == Cmd("Move", c, a, "", target, params)
Stop(c, a) == Cmd("Stop", c, a, "", 0, NoParams)
GetState(c, a) == Cmd("GetState", c, a, "", 0, NoParams)
GetPos(c, a) == Cmd("GetPos", c, a, "", 0, NoParams)
GetAttr(c, a, attr) == Cmd("GetAttr", c, a, attr, 0, NoParams)
GetAvailableParams(c, a) == Cmd("GetAvailableParams", c, a, "", 0, NoParams)
GetSupportedMovementParams(c, a) == Cmd("GetSupportedMovementParams", c, a, "", 0, NoParams)
ListControllers == Cmd("ListControllers", "", "", "", 0, NoParams)
ListAxes(c) == Cmd("ListAxes", c, "", "", 0, NoParams)

(***************************************************************************)
(* Axis and controller capability, as the mock implements it.              *)
(***************************************************************************)
\* MotorController::get_axis: linear lookup among axes()
get_axis(inst, axis) ==
    IF axis \in AxisNames
    THEN [ok |-> TRUE, msg |-> ""]
    ELSE [ok |-> FALSE, msg |-> "Axis not found: " \o axis \o " in controller " \o inst]

\* MockAxis::start, the check before any state is written
start_rejects(axis, params) ==
    params.given /\ params.p.acceleration.some /\ ~supports_acceleration(axis)

\* MockAxis::start: the position is written before the distance is read back
movement_time(ax, target, params) ==
    IF params.given
    THEN LET velocity == IF params.p.velocity.some THEN params.p.velocity.v ELSE MockVelocity
             current_pos == ax.position
             distance == IF target >= current_pos THEN target - current_pos ELSE current_pos - target
         IN  (distance * 1000) \div velocity
    ELSE 1000

\* MockAxis::get_attribute
axis_get_attribute(ax, axis, name) ==
    CASE name = "velocity" -> Ok("", JNum(MockVelocity), NoList, {})
      [] name = "acceleration" ->
            IF supports_acceleration(axis)
            THEN Ok("", JNum(MockAcceleration), NoList, {})
            ELSE Err("Parameter '" \o name \o "' not supported by axis " \o axis)
      [] name = "max_position" -> Ok("", JNum(MockMaxPosition), NoList, {})
      [] name = "min_position" -> Ok("", JNum(MockMinPosition), NoList, {})
      [] name = "position" -> Ok("", JNum(ax.position), NoList, {})
      [] name = "supports_acceleration" ->
            Ok("", JNum(IF supports_acceleration(axis) THEN 1 ELSE 0), NoList, {})
      [] OTHER -> Err("Unknown parameter: " \o name)

\* MockAxis::get_available_params
axis_get_available_params(axis) ==
    <<"velocity", "max_position", "min_position", "position", "supports_acceleration">>
        \o (IF supports_acceleration(axis) THEN <<"acceleration">> ELSE <<>>)

\* MockAxis::get_supported_movement_params
axis_get_supported_movement_params(axis) ==
    <<"velocity">> \o (IF supports_acceleration(axis) THEN <<"acceleration", "deceleration">> ELSE <<>>)

\* MockController::get_attribute: resolve the axis, delegate
controller_get_attribute(ax_of, inst, axis, attr) ==
    IF ~get_axis(inst, axis).ok THEN Err(get_axis(inst, axis).msg)
    ELSE axis_get_attribute(ax_of[inst][axis], axis, attr)

(***************************************************************************)
(* The methods MotorController provides, for a controller that keeps them. *)
(* Each yields its result and the axis methods it called, in order.        *)
(***************************************************************************)
\* a get_attribute that resolves the axis and delegates, whatever the axis lists
get_attribute_unchecked(ax_of, inst, axis, attribute) ==
    IF ~get_axis(inst, axis).ok
    THEN [result |-> Err(get_axis(inst, axis).msg), calls |-> <<>>]
    ELSE [result |-> axis_get_attribute(ax_of[inst][axis], axis, attribute),
          calls |-> <<"get_attribute">>]

\* MotorController::get_attribute: get_available_attributes(axis)?, the contains test,
\* then get_axis(axis)? and the axis's get_attribute
get_attribute_result(ax_of, inst, axis, attribute) ==
    IF ~get_axis(inst, axis).ok
    THEN [result |-> Err(get_axis(inst, axis).msg), calls |-> <<>>]
    ELSE LET supported_attributes == axis_get_available_params(axis) IN
         IF ~(\E i \in 1..Len(supported_attributes) : supported_attributes[i] = attribute)
         THEN [result |-> Err("Attribute not supported: " \o attribute),
               calls |-> <<"get_available_params">>]
         ELSE [result |-> axis_get_attribute(ax_of[inst][axis], axis, attribute),
               calls |-> <<"get_available_params", "get_attribute">>]

\* the error of an axis whose stop fails
StopError(axis) == Err("stop failed: " \o axis)

\* a shutdown that stops every axis and then returns the first failure
RECURSIVE shutdown_all(_, _)
shutdown_all(axs, fails) ==
    IF axs = <<>> THEN [result |-> Ok("", JNull, NoList, {}), calls |-> <<>>]
    ELSE LET rest == shutdown_all(Tail(axs), fails) IN
         [result |-> IF Head(axs) \in fails THEN StopError(Head(axs)) ELSE rest.result,
          calls |-> <<Head(axs)>> \o rest.calls]

\* MotorController::shutdown: for axis in self.axes() { axis.stop().await?; } Ok(())
\* fails: the axes whose stop returns an error; calls: the axes whose stop was called
RECURSIVE shutdown_result(_, _)
shutdown_result(axs, fails) ==
    IF axs = <<>> THEN [result |-> Ok("", JNull, NoList, {}), calls |-> <<>>]
    ELSE IF Head(axs) \in fails THEN [result |-> StopError(Head(axs)), calls |-> <<Head(axs)>>]
    ELSE LET rest == shutdown_result(Tail(axs), fails) IN
         [result |-> rest.result, calls |-> <<Head(axs)>> \o rest.calls]

\* no provided method was called yet; fails: the axes whose stop returns an error
NoCall(fails) ==
    [fails |-> fails, op |-> "<none>", inst |-> "", axis |-> "", attribute |-> "",
     calls |-> <<>>, result |-> NoResult]

(***************************************************************************)
(* The cache (moka, built with max_capacity only).                         *)
(***************************************************************************)
cache_key(controller, axis, kind) == controller \o "::" \o axis \o "::" \o kind

CacheHas(c, key) == key \in DOMAIN c
CacheGet(c, key) == c[key].val
\* an insert that stores nothing
CacheInsertNothing(c, key, val, t) == c
CacheInsert(c, key, val, t) ==
    [k \in DOMAIN c \cup {key} |-> IF k = key THEN [val |-> val, at |-> t] ELSE c[k]]
CacheInvalidate(c, key) == [k \in DOMAIN c \ {key} |-> c[k]]
EmptyCache == [k \in {} |-> [val |-> JNull, at |-> 0]]


(***************************************************************************)
(* The handlers of the dispatch loop, as functions of the registry, the    *)
(* backend and the cache: the result, the cache afterwards, and whether an *)
(* axis method was called.                                                 *)
(***************************************************************************)
Lookup(ctrls, name) == IF name \in DOMAIN ctrls THEN ctrls[name] ELSE NoCtrl
\* an error that does not name the controller
ControllerNotFoundBare(controller) == Err("Controller not found")
\* anyhow!("Controller not found: {}", controller)
ControllerNotFound(controller) == Err("Controller not found: " \o controller)
Outcome(res, c, called) == [res |-> res, cache |-> c, backend |-> called]

\* a handle_move whose backend starts the motion whatever the parameters
handle_move_lenient(ctrls, controller, axis, params) ==
    LET inst == Lookup(ctrls, controller) IN
    IF inst = NoCtrl THEN ControllerNotFound(controller)
    ELSE IF ~get_axis(inst, axis).ok THEN Err(get_axis(inst, axis).msg)
    ELSE Ok("move", JNull, NoList, {})

\* handle_move up to the sleep inside MockAxis::start: the failures before it
handle_move_check(ctrls, controller, axis, params) ==
    LET inst == Lookup(ctrls, controller) IN
    IF inst = NoCtrl THEN ControllerNotFound(controller)
    ELSE IF ~get_axis(inst, axis).ok THEN Err(get_axis(inst, axis).msg)
    ELSE IF start_rejects(axis, params)
         THEN Err("Axis " \o axis \o " does not support acceleration parameter")
    ELSE Ok("move", JNull, NoList, {})

\* a handle_move that acknowledges and leaves the cache as it is
handle_move_keep(c, controller, axis, target) ==
    Outcome(Ok("move", JNum(target), NoList, {}), c, TRUE)

\* a handle_move that empties the cache
handle_move_clear(c, controller, axis, target) ==
    Outcome(Ok("move", JNum(target), NoList, {}), EmptyCache, TRUE)

\* handle_move after ctrl.start returned Ok: invalidate the position key, acknowledge
handle_move_done(c, controller, axis, target) ==
    Outcome(Ok("move", JNum(target), NoList, {}),
            CacheInvalidate(c, cache_key(controller, axis, "position")), TRUE)

\* handle_stop: the cache is not an argument of it
handle_stop(ctrls, c, controller, axis) ==
    LET inst == Lookup(ctrls, controller) IN
    IF inst = NoCtrl THEN Outcome(ControllerNotFound(controller), c, FALSE)
    ELSE IF ~get_axis(inst, axis).ok THEN Outcome(Err(get_axis(inst, axis).msg), c, FALSE)
    ELSE Outcome(Ok("stop", JNull, NoList, {}), c, TRUE)

\* a handle_get_pos that resolves the controller before it looks into the cache
handle_get_pos_resolve_first(ctrls, ax_of, c, t, controller, axis) ==
    LET key == cache_key(controller, axis, "position")
        inst == Lookup(ctrls, controller)
    IN  IF inst = NoCtrl THEN Outcome(ControllerNotFound(controller), c, FALSE)
        ELSE IF CacheHas(c, key) THEN Outcome(Ok("position", CacheGet(c, key), NoList, {}), c, FALSE)
        ELSE IF ~get_axis(inst, axis).ok THEN Outcome(Err(get_axis(inst, axis).msg), c, FALSE)
        ELSE LET value == JNum(ax_of[inst][axis].position)
             IN  Outcome(Ok("position", value, NoList, {}), CacheInsert(c, key, value, t), TRUE)

handle_get_pos(ctrls, ax_of, c, t, controller, axis) ==
    LET key == cache_key(controller, axis, "position")
        inst == Lookup(ctrls, controller)
    IN  IF CacheHas(c, key) THEN Outcome(Ok("position", CacheGet(c, key), NoList, {}), c, FALSE)
        ELSE IF inst = NoCtrl THEN Outcome(ControllerNotFound(controller), c, FALSE)
        ELSE IF ~get_axis(inst, axis).ok THEN Outcome(Err(get_axis(inst, axis).msg), c, FALSE)
        ELSE LET value == JNum(ax_of[inst][axis].position)
             IN  Outcome(Ok("position", value, NoList, {}), CacheInsert(c, key, value, t), TRUE)

handle_get_state(ctrls, ax_of, c, t, controller, axis) ==
    LET key == cache_key(controller, axis, "status")
        inst == Lookup(ctrls, controller)
    IN  IF CacheHas(c, key) THEN Outcome(Ok("status", CacheGet(c, key), NoList, {}), c, FALSE)
        ELSE IF inst = NoCtrl THEN Outcome(ControllerNotFound(controller), c, FALSE)
        ELSE IF ~get_axis(inst, axis).ok THEN Outcome(Err(get_axis(inst, axis).msg), c, FALSE)
        ELSE LET status_json == JStatus(ax_of[inst][axis].state, "None")
             IN  Outcome(Ok("status", status_json, NoList, {}), CacheInsert(c, key, status_json, t), TRUE)

\* a handle_get_attr that also stores, as null, the read that failed
handle_get_attr_caches_error(ctrls, ax_of, c, t, controller, axis, attr) ==
    LET key == cache_key(controller, axis, attr)
        inst == Lookup(ctrls, controller)
    IN  IF CacheHas(c, key) THEN Outcome(Ok("value", CacheGet(c, key), NoList, {}), c, FALSE)
        ELSE IF inst = NoCtrl THEN Outcome(ControllerNotFound(controller), c, FALSE)
        ELSE LET value == controller_get_attribute(ax_of, inst, axis, attr)
             IN  IF ~value.ok
                 THEN Outcome(Err(value.msg), CacheInsert(c, key, JNull, t), get_axis(inst, axis).ok)
                 ELSE Outcome(Ok("value", value.val, NoList, {}), CacheInsert(c, key, value.val, t), TRUE)

handle_get_attr(ctrls, ax_of, c, t, controller, axis, attr) ==
    LET key == cache_key(controller, axis, attr)
        inst == Lookup(ctrls, controller)
    IN  IF CacheHas(c, key) THEN Outcome(Ok("value", CacheGet(c, key), NoList, {}), c, FALSE)
        ELSE IF inst = NoCtrl THEN Outcome(ControllerNotFound(controller), c, FALSE)
        ELSE LET value == controller_get_attribute(ax_of, inst, axis, attr)
             IN  IF ~value.ok THEN Outcome(Err(value.msg), c, get_axis(inst, axis).ok)
                 ELSE Outcome(Ok("value", value.val, NoList, {}), CacheInsert(c, key, value.val, t), TRUE)

\* a handler that serves the list from the cache and stores it there
handle_get_available_params_cached(ctrls, c, controller, axis) ==
    LET inst == Lookup(ctrls, controller)
        key == cache_key(controller, axis, "available_params")
    IN  IF CacheHas(c, key)
        THEN Outcome(Ok("available_params", JNull, axis_get_available_params(axis), {}), c, FALSE)
        ELSE IF inst = NoCtrl THEN Outcome(ControllerNotFound(controller), c, FALSE)
        ELSE IF ~get_axis(inst, axis).ok THEN Outcome(Err(get_axis(inst, axis).msg), c, FALSE)
        ELSE Outcome(Ok("available_params", JNull, axis_get_available_params(axis), {}),
                     CacheInsert(c, key, JNull, 0), TRUE)

handle_get_available_params(ctrls, c, controller, axis) ==
    LET inst == Lookup(ctrls, controller) IN
    IF inst = NoCtrl THEN Outcome(ControllerNotFound(controller), c, FALSE)
    ELSE IF ~get_axis(inst, axis).ok THEN Outcome(Err(get_axis(inst, axis).msg), c, FALSE)
    ELSE Outcome(Ok("available_params", JNull, axis_get_available_params(axis), {}), c, TRUE)

handle_get_supported_movement_params(ctrls, c, controller, axis) ==
    LET inst == Lookup(ctrls, controller) IN
    IF inst = NoCtrl THEN Outcome(ControllerNotFound(controller), c, FALSE)
    ELSE IF ~get_axis(inst, axis).ok THEN Outcome(Err(get_axis(inst, axis).msg), c, FALSE)
    ELSE Outcome(Ok("supported_movement_params", JNull, axis_get_supported_movement_params(axis), {}), c, TRUE)

\* the keys of the registry, in no particular order
handle_list_controllers(ctrls, c) ==
    Outcome(Ok("controllers", JNull, NoList, {n \in DOMAIN ctrls : ctrls[n] # NoCtrl}), c, FALSE)

handle_list_axes(ctrls, c, controller) ==
    LET inst == Lookup(ctrls, controller) IN
    IF inst = NoCtrl THEN Outcome(ControllerNotFound(controller), c, FALSE)
    ELSE Outcome(Ok("axes", JNull, MockAxes, {}), c, FALSE)


(***************************************************************************)
(* The command channel and the response channels.                          *)
(***************************************************************************)
\* a receive that takes the newest command
QueueRecvNewest(q) == [cmd |-> q[Len(q)], rest |-> SubSeq(q, 1, Len(q) - 1)]

\* mpsc: send appends, recv takes the oldest
QueueSend(q, cmd) == Append(q, cmd)
QueueRecv(q) == [cmd |-> Head(q), rest |-> Tail(q)]

\* oneshot: resp.send(result); `let _ =` drops the value when the receiver is gone
NoResp == [state |-> "none", sends |-> 0, val |-> NoResult]
NewResp == [state |-> "waiting", sends |-> 0, val |-> NoResult]
\* a loop that answers the successes only
RespSendOkOnly(r, id, result) ==
    IF result.ok
    THEN [r EXCEPT ![id] = [state |-> IF @.state = "waiting" THEN "ready" ELSE @.state,
                            sends |-> @.sends + 1,
                            val |-> IF @.state = "waiting" THEN result ELSE @.val]]
    ELSE r

RespSend(r, id, result) ==
    [r EXCEPT ![id] = [state |-> IF @.state = "waiting" THEN "ready" ELSE @.state,
                       sends |-> @.sends + 1,
                       val |-> IF @.state = "waiting" THEN result ELSE @.val]]

\* a loop that also takes commands while the backend call of a Move is asleep
LoopAtRecvOrAsleep == loop_pc \in {"recv", "sleep"}

\* the ids of the commands in the queue
InQueue == {queue[i].id : i \in 1..Len(queue)}

\* the error of a send to a closed queue and of a receive from a dropped sender
ChannelClosed == Err("channel closed")

\* cmd_sender.send fails once the receiver of the queue is dropped
QueueClosed == loop_pc = "stopped"

\* a receiver that completes only with a value
RxAwaitValueOnly(r) ==
    [resolved |-> r.state = "ready", result |-> r.val]

\* rx.await on the oneshot receiver: the value sent, or RecvError once the sender is dropped
RxAwait(r) ==
    [resolved |-> r.state \in {"ready", "closed"},
     result |-> IF r.state = "closed" THEN ChannelClosed ELSE r.val]

\* the dispatch loop is between two commands, at rx.recv()
LoopAtRecv == loop_pc = "recv"

\* a handle_move that holds no guard of the registry
ReadLockedNever == FALSE

\* a handle_move whose read guard outlives it
ReadLockedAfterReturn == loop_pc = "sleep" \/ last_done.cmd.kind = "Move"

\* handle_move holds the registry's read guard across the sleep inside start
ReadLocked == loop_pc = "sleep"

\* a loop that ends when the waiter of the command is gone
NextIterationUnlessDropped(r, id) == IF r[id].state = "dropped" THEN "stopped" ELSE "recv"

\* `let _ = resp.send(result)`: what the send returned is discarded, the loop goes round
NextIteration(r, id) == "recv"

\* a handler that unregisters the controller whose command failed
RegistryDisabledOnError(ctrls, cmd, res) ==
    IF ~res.ok /\ cmd.controller \in DOMAIN ctrls
    THEN [ctrls EXCEPT ![cmd.controller] = NoCtrl]
    ELSE ctrls

\* the handlers hold controllers.read(): the registry after a command is the one before
RegistryAfter(ctrls, cmd, res) == ctrls

\* the end of one iteration of command_loop: the response, and back to rx.recv()
Finish(out, called) ==
    /\ resp' = RespSend(resp, cur.id, out.res)
    /\ controllers' = RegistryAfter(controllers, cur, out.res)
    /\ UNCHANGED <<admin, sleep_ms, trait_call>>
    /\ events' = events \o (IF called THEN <<[type |-> "backend", id |-> cur.id]>> ELSE <<>>)
                        \o <<[type |-> "resp", id |-> cur.id]>>
    /\ last_done' = [cmd |-> cur, res |-> out.res, before |-> cache, at |-> now]
    /\ cache' = out.cache
    /\ loop_pc' = NextIteration(resp, cur.id)
    /\ cur' = NoCmd

(***************************************************************************)
(* The manager's operations.                                               *)
(***************************************************************************)
\* the names a controller can be registered under
Names == {"c1", "c2"}
\* ControllerManager::new: HashMap::new()
NoRegistry == [n \in Names |-> NoCtrl]

\* a registration that keeps the binding a name already has
register_if_absent(ctrls, name, inst) ==
    [registry |-> IF ctrls[name] = NoCtrl THEN [ctrls EXCEPT ![name] = inst] ELSE ctrls, ok |-> TRUE]

\* ctrls.insert(name, controller); Ok(())
register_result(ctrls, name, inst) ==
    [registry |-> [ctrls EXCEPT ![name] = inst], ok |-> TRUE]

\* an unregistration that shuts down first and removes only when the shutdown succeeded
unregister_after_shutdown(ctrls, name, shutdown_ok) ==
    IF ctrls[name] = NoCtrl
    THEN [registry |-> ctrls, ok |-> TRUE, shutdowns |-> 0]
    ELSE [registry |-> IF shutdown_ok THEN [ctrls EXCEPT ![name] = NoCtrl] ELSE ctrls,
          ok |-> shutdown_ok, shutdowns |-> 1]

\* if let Some(ctrl) = ctrls.remove(name) { ctrl.shutdown().await? }; Ok(())
unregister_result(ctrls, name, shutdown_ok) ==
    IF ctrls[name] = NoCtrl
    THEN [registry |-> ctrls, ok |-> TRUE, shutdowns |-> 0]
    ELSE [registry |-> [ctrls EXCEPT ![name] = NoCtrl], ok |-> shutdown_ok, shutdowns |-> 1]

\* ControllerManager::new, then register_controller("c1", m1) as main does
MInit ==
    /\ controllers = register_result(NoRegistry, "c1", "m1").registry
    /\ axes = [i \in Instances |-> [a \in AxisNames |-> NewAxis]]
    /\ cache = EmptyCache
    /\ queue = <<>>
    /\ loop_pc = "recv"
    /\ cur = NoCmd
    /\ resp = [i \in 1..MaxCmds |-> NoResp]
    /\ events = <<>>
    /\ last_done = [cmd |-> NoCmd, res |-> NoResult, before |-> EmptyCache, at |-> 0]
    /\ nextId = 1
    /\ now = 0
    /\ sleep_ms = 0
    /\ admin = [op |-> "register", name |-> "c1", inst |-> "m1", before |-> NoRegistry,
                after |-> register_result(NoRegistry, "c1", "m1").registry, ok |-> TRUE, shutdowns |-> 0]

\* register_controller: under the write lock, insert, Ok(())
register_controller(name, inst) ==
    /\ ~ReadLocked
    /\ LET r == register_result(controllers, name, inst) IN
        /\ controllers' = r.registry
        /\ admin' = [op |-> "register", name |-> name, inst |-> inst, before |-> controllers,
                     after |-> r.registry, ok |-> r.ok, shutdowns |-> 0]
    /\ UNCHANGED <<svars, axes, cache, queue, loop_pc, cur, resp, events, last_done, nextId, now,
                   sleep_ms, trait_call>>

\* unregister_controller: under the write lock, remove, then shut the removed controller down.
\* shutdown_ok is what ctrl.shutdown() returns: Ok from the mock, which only logs; Err from a
\* controller that keeps the trait's shutdown when the stop of one of its axes fails
unregister_controller(name, shutdown_ok) ==
    /\ ~ReadLocked
    /\ LET r == unregister_result(controllers, name, shutdown_ok) IN
        /\ controllers' = r.registry
        /\ admin' = [op |-> "unregister", name |-> name, inst |-> controllers[name],
                     before |-> controllers, after |-> r.registry, ok |-> r.ok,
                     shutdowns |-> r.shutdowns]
    /\ UNCHANGED <<svars, axes, cache, queue, loop_pc, cur, resp, events, last_done, nextId, now,
                   sleep_ms, trait_call>>

\* cmd_sender.send(cmd): the command, with its fresh response channel, joins the queue
Enqueue(cmd) ==
    /\ nextId <= MaxCmds
    /\ ~QueueClosed
    /\ Len(queue) < ChannelCapacity
    /\ queue' = QueueSend(queue, [cmd EXCEPT !.id = nextId])
    /\ resp' = [resp EXCEPT ![nextId] = NewResp]
    /\ nextId' = nextId + 1

send_command(cmd) ==
    /\ Enqueue(cmd)
    /\ UNCHANGED <<svars, controllers, axes, cache, loop_pc, cur, events, last_done, admin, sleep_ms, trait_call, now>>

\* the waiter of a command goes away before the response
DropReceiver(id) ==
    /\ resp[id].state = "waiting"
    /\ resp' = [resp EXCEPT ![id].state = "dropped"]
    /\ UNCHANGED <<svars, controllers, axes, cache, queue, loop_pc, cur, events, last_done, admin, sleep_ms, trait_call, nextId, now>>

\* the command_loop task is dropped at one of its awaits (the runtime shuts down, a backend
\* call panics): the receiver of the queue, the commands in it and the command in hand are
\* dropped, and with them their response senders, unfulfilled
LoopAbort ==
    /\ loop_pc # "stopped"
    /\ loop_pc' = "stopped"
    /\ resp' = [id \in DOMAIN resp |->
                  IF (id \in InQueue \/ (loop_pc # "recv" /\ cur.id = id)) /\ resp[id].state = "waiting"
                  THEN [resp[id] EXCEPT !.state = "closed"]
                  ELSE resp[id]]
    /\ queue' = <<>>
    /\ cur' = NoCmd
    /\ UNCHANGED <<svars, controllers, axes, cache, events, last_done, admin, sleep_ms, trait_call, nextId, now>>

\* command_loop: rx.recv() returns the next command
Recv ==
    /\ LoopAtRecv
    /\ queue # <<>>
    /\ cur' = QueueRecv(queue).cmd
    /\ queue' = QueueRecv(queue).rest
    /\ loop_pc' = "handle"
    /\ UNCHANGED <<svars, controllers, axes, cache, resp, events, last_done, admin, sleep_ms, trait_call, nextId, now>>

\* a start that returns with the axis still Moving
start_done_keep(ax) == ax

\* MockAxis::start after the sleep: *self.state.write().await = AxisState::On
start_done(ax) == [ax EXCEPT !.state = "On"]

\* Move: a failure before the motion answers at once; else the axis is Moving and sleeps
DoMove ==
    /\ loop_pc = "handle" /\ cur.kind = "Move"
    /\ LET chk == handle_move_check(controllers, cur.controller, cur.axis, cur.params)
           inst == Lookup(controllers, cur.controller)
       IN  IF ~chk.ok
           THEN /\ Finish(Outcome(chk, cache, FALSE), FALSE)
                /\ UNCHANGED <<svars, axes, queue, nextId, now>>
           ELSE /\ LET moving == [position |-> cur.target, state |-> "Moving"] IN
                     /\ axes' = [axes EXCEPT ![inst][cur.axis] = moving]
                     /\ sleep_ms' = movement_time(moving, cur.target, cur.params)
                /\ loop_pc' = "sleep"
                /\ events' = Append(events, [type |-> "backend", id |-> cur.id])
                /\ UNCHANGED <<svars, controllers, cache, queue, cur, resp, last_done, admin, trait_call,
                               nextId, now>>

\* Move: the sleep is over, the axis is On, the position key is invalidated
MoveDone ==
    /\ loop_pc = "sleep"
    /\ LET inst == Lookup(controllers, cur.controller)
       IN  axes' = [axes EXCEPT ![inst][cur.axis] = start_done(@)]
    /\ Finish(handle_move_done(cache, cur.controller, cur.axis, cur.target), FALSE)
    /\ UNCHANGED <<svars, queue, nextId, now>>

DoStop ==
    /\ loop_pc = "handle" /\ cur.kind = "Stop"
    /\ LET out == handle_stop(controllers, cache, cur.controller, cur.axis)
           inst == Lookup(controllers, cur.controller)
       IN  /\ axes' = IF out.res.ok THEN [axes EXCEPT ![inst][cur.axis].state = "On"] ELSE axes
           /\ Finish(out, out.backend)
    /\ UNCHANGED <<svars, queue, nextId, now>>

\* the handlers that read: the backend is left as it is
DoRead(kind, out) ==
    /\ loop_pc = "handle" /\ cur.kind = kind
    /\ Finish(out, out.backend)
    /\ UNCHANGED <<svars, axes, queue, nextId, now>>

DoGetState == DoRead("GetState", handle_get_state(controllers, axes, cache, now, cur.controller, cur.axis))
DoGetPos == DoRead("GetPos", handle_get_pos(controllers, axes, cache, now, cur.controller, cur.axis))
DoGetAttr == DoRead("GetAttr", handle_get_attr(controllers, axes, cache, now, cur.controller, cur.axis, cur.attr))
DoGetAvailableParams ==
    DoRead("GetAvailableParams", handle_get_available_params(controllers, cache, cur.controller, cur.axis))
DoGetSupportedMovementParams ==
    DoRead("GetSupportedMovementParams",
           handle_get_supported_movement_params(controllers, cache, cur.controller, cur.axis))
DoListControllers == DoRead("ListControllers", handle_list_controllers(controllers, cache))
DoListAxes == DoRead("ListAxes", handle_list_axes(controllers, cache, cur.controller))

\* a call of the provided get_attribute of controller inst
get_attribute(inst, axis, attribute) ==
    /\ LET r == get_attribute_result(axes, inst, axis, attribute) IN
         trait_call' = [fails |-> trait_call.fails, op |-> "get_attribute", inst |-> inst,
                        axis |-> axis, attribute |-> attribute, calls |-> r.calls, result |-> r.result]
    /\ UNCHANGED <<svars, controllers, axes, cache, queue, loop_pc, cur, resp, events, last_done,
                   nextId, now, admin, sleep_ms>>

\* a call of the provided shutdown of controller inst
controller_shutdown(inst) ==
    /\ LET r == shutdown_result(MockAxes, trait_call.fails) IN
         trait_call' = [fails |-> trait_call.fails, op |-> "shutdown", inst |-> inst,
                        axis |-> "", attribute |-> "", calls |-> r.calls, result |-> r.result]
    /\ UNCHANGED <<svars, controllers, axes, cache, queue, loop_pc, cur, resp, events, last_done,
                   nextId, now, admin, sleep_ms>>

\* moka's maintenance: over capacity, some entry is evicted
CacheEvict(key) ==
    /\ Cardinality(DOMAIN cache) > cache_capacity
    /\ key \in DOMAIN cache
    /\ cache' = CacheInvalidate(cache, key)
    /\ UNCHANGED <<svars, controllers, axes, queue, loop_pc, cur, resp, events, last_done, admin, sleep_ms, trait_call, nextId, now>>

Tick ==
    /\ now < MaxTime
    /\ now' = now + 1
    /\ UNCHANGED <<svars, controllers, axes, cache, queue, loop_pc, cur, resp, events, last_done, admin, sleep_ms, trait_call, nextId>>

\* one iteration of command_loop, by kind
Dispatch ==
    \/ Recv
    \/ DoMove
    \/ MoveDone
    \/ DoStop
    \/ DoGetState
    \/ DoGetPos
    \/ DoGetAttr
    \/ DoGetAvailableParams
    \/ DoGetSupportedMovementParams
    \/ DoListControllers
    \/ DoListAxes

(***************************************************************************)
(* The socket server: the protocol values.                                 *)
(***************************************************************************)
\* Option<String>, the id of a request
NoId == [some |-> FALSE, s |-> ""]
SomeId(x) == [some |-> TRUE, s |-> x]

\* one line from a client: bytes that are no UTF-8, text that is no command, ping, a command
Line(kind, cmd, id) == [kind |-> kind, cmd |-> cmd, id |-> id]
InvalidUtf8 == Line("invalid_utf8", NoCmd, NoId)
Malformed == Line("malformed", NoCmd, NoId)
\* text that is no command although it holds an "id" member
MalformedWithId(id) == Line("malformed", NoCmd, id)
Ping(id) == Line("ping", NoCmd, id)
Request(cmd, id) == Line("command", cmd, id)

\* an error response that leaves the id out
ErrorNoId(id, message) == [status |-> "error", id |-> NoId, message |-> message, data |-> NoResult]

\* ServerResponse::success, ServerResponse::error
Success(id, data) == [status |-> "success", id |-> id, message |-> "", data |-> data]
Error(id, message) == [status |-> "error", id |-> id, message |-> message, data |-> NoResult]
NoResponse == [status |-> "<none>", id |-> NoId, message |-> "", data |-> NoResult]
\* a ping that finds nothing to answer with
PongFailed == Err("pong")
Pong == Ok("pong", JNull, NoList, {})

NoPending == [id |-> NoId, cmd |-> 0, response |-> NoResponse]

(***************************************************************************)
(* The socket server: bounds and configuration.                            *)
(***************************************************************************)
\* connections the clients attempt in one run
MaxConns == 2
\* lines the clients send in one run
MaxLines == 2
\* configuration: SocketServerConfig.max_connections
max_connections == 1
\* responses a client's socket holds unread before a write to it blocks
SockBuf == 1

Conns == 1..MaxConns
\* the receiver of the acceptance loop, among the receivers named by connection
AcceptRx == 0

Connected(c) == conn[c] \in {"backlog", "accepted", "select", "await", "send"}
\* the loop of handle_client is running
HandlerLive(c) == conn[c] \in {"select", "await", "send"}
\* the task spawned for the connection has not ended
HandlerRunning(c) == conn[c] \in {"select", "await", "send", "returned", "failed"}
Receivers ==
    (IF accept_pc \in {"select", "accepted"} THEN {AcceptRx} ELSE {})
        \cup {c \in Conns : HandlerRunning(c)}

\* an admission test that lets one connection too many in
AdmissionAbove(current_connections) == current_connections > max_connections

\* a session that returns the decode error from handle_client
DecodeFailureEnds(line) ==
    [next |-> "failed", response |-> Error(NoId, "Failed to parse command")]

\* process_command: parse_command fails, the error response is returned to handle_client,
\* which goes on to write it
DecodeFailure(line) ==
    [next |-> "send", response |-> Error(NoId, "Failed to parse command")]

\* a handler that takes the next line while the response of the last one is awaited
AtSelectOrAwait(c) == conn[c] \in {"select", "await"}

\* handle_client is at its select: framed.next() and shutdown_rx.recv() are polled
AtSelect(c) == conn[c] = "select"

\* the entries of session_log
LogRead(line) == [op |-> "read", kind |-> line.kind, id |-> line.id]
LogWrite(response) == [op |-> "write", kind |-> response.status, id |-> response.id]

\* the admission test of the acceptance loop
AdmissionFull(current_connections) == current_connections >= max_connections

\* a task that leaves the counter alone when handle_client returned Err
AfterHandlerOkOnly(n, result) == IF result = "failed" THEN n ELSE n - 1

\* the spawned task after handle_client returned, Ok ("returned") or Err ("failed"):
\* the error is logged, then active_connections.fetch_sub(1)
AfterHandler(n, result) == n - 1

(***************************************************************************)
(* The socket server: its operations.                                      *)
(***************************************************************************)
\* SocketServer::new
SInit ==
    /\ accept_pc = "unstarted"
    /\ accepted = [conn |-> 0, current_connections |-> 0]
    /\ active_connections = 0
    /\ conn = [c \in Conns |-> "idle"]
    /\ inbox = [c \in Conns |-> <<>>]
    /\ outbox = [c \in Conns |-> <<>>]
    /\ peer_closed = [c \in Conns |-> FALSE]
    /\ pending = [c \in Conns |-> NoPending]
    /\ sig = {}
    /\ socket_file = FALSE
    /\ lines_sent = 0
    /\ session_log = [c \in Conns |-> <<>>]

\* start: bind the socket, create the broadcast channel, spawn the acceptance loop
Start ==
    /\ accept_pc = "unstarted"
    /\ accept_pc' = "select"
    /\ socket_file' = TRUE
    /\ UNCHANGED <<mvars, accepted, active_connections, conn, inbox, outbox, peer_closed, pending,
                   sig, lines_sent, session_log>>

\* shutdown: one message to every receiver there is now, then the socket file is removed
Shutdown ==
    /\ IF accept_pc # "unstarted"
       THEN sig' = sig \cup Receivers
       ELSE UNCHANGED sig
    /\ socket_file' = FALSE
    /\ UNCHANGED <<mvars, accept_pc, accepted, active_connections, conn, inbox, outbox, peer_closed,
                   pending, lines_sent, session_log>>

\* a client connects to the socket path; connections are numbered as they arrive
ClientConnect(c) ==
    /\ conn[c] = "idle"
    /\ \A d \in 1..(c - 1) : conn[d] # "idle"
    /\ socket_file /\ accept_pc \in {"select", "accepted"}
    /\ conn' = [conn EXCEPT ![c] = "backlog"]
    /\ UNCHANGED <<mvars, accept_pc, accepted, active_connections, inbox, outbox, peer_closed, pending,
                   sig, socket_file, lines_sent, session_log>>

ClientSend(c, line) ==
    /\ Connected(c) /\ ~peer_closed[c]
    /\ lines_sent < MaxLines
    /\ inbox' = [inbox EXCEPT ![c] = Append(@, line)]
    /\ lines_sent' = lines_sent + 1
    /\ UNCHANGED <<mvars, accept_pc, accepted, active_connections, conn, outbox, peer_closed, pending,
                   sig, socket_file, session_log>>

ClientRead(c) ==
    /\ outbox[c] # <<>>
    /\ outbox' = [outbox EXCEPT ![c] = Tail(@)]
    /\ UNCHANGED <<mvars, accept_pc, accepted, active_connections, conn, inbox, peer_closed, pending,
                   sig, socket_file, lines_sent, session_log>>

ClientClose(c) ==
    /\ Connected(c) /\ ~peer_closed[c]
    /\ peer_closed' = [peer_closed EXCEPT ![c] = TRUE]
    /\ UNCHANGED <<mvars, accept_pc, accepted, active_connections, conn, inbox, outbox, pending,
                   sig, socket_file, lines_sent, session_log>>

\* the acceptance loop: listener.accept() returns a stream, the counter is loaded
AcceptConn(c) ==
    /\ accept_pc = "select"
    /\ conn[c] = "backlog"
    /\ accept_pc' = "accepted"
    /\ accepted' = [conn |-> c, current_connections |-> active_connections]
    /\ conn' = [conn EXCEPT ![c] = "accepted"]
    /\ UNCHANGED <<mvars, active_connections, inbox, outbox, peer_closed, pending,
                   sig, socket_file, lines_sent, session_log>>

\* the stream of a connection is dropped: what it held is gone
DropStream(c, state) ==
    /\ conn' = [conn EXCEPT ![c] = state]
    /\ inbox' = [inbox EXCEPT ![c] = <<>>]
    /\ outbox' = [outbox EXCEPT ![c] = <<>>]
    /\ peer_closed' = [peer_closed EXCEPT ![c] = FALSE]
    /\ pending' = [pending EXCEPT ![c] = NoPending]
    /\ session_log' = [session_log EXCEPT ![c] = <<>>]

\* at or above the ceiling: a warning, the stream is dropped
Reject ==
    /\ accept_pc = "accepted"
    /\ AdmissionFull(accepted.current_connections)
    /\ DropStream(accepted.conn, "declined")
    /\ accept_pc' = "select"
    /\ accepted' = [conn |-> 0, current_connections |-> 0]
    /\ UNCHANGED <<mvars, active_connections, sig, socket_file, lines_sent>>

\* below the ceiling: fetch_add(1), resubscribe, spawn the handler
Admit ==
    /\ accept_pc = "accepted"
    /\ ~AdmissionFull(accepted.current_connections)
    /\ active_connections' = active_connections + 1
    /\ conn' = [conn EXCEPT ![accepted.conn] = "select"]
    /\ accept_pc' = "select"
    /\ accepted' = [conn |-> 0, current_connections |-> 0]
    /\ UNCHANGED <<mvars, inbox, outbox, peer_closed, pending,
                   sig, socket_file, lines_sent, session_log>>

\* the acceptance loop takes the shutdown branch of its select
AcceptShutdown ==
    /\ accept_pc = "select"
    /\ AcceptRx \in sig
    /\ accept_pc' = "exited"
    /\ sig' = sig \ {AcceptRx}
    /\ UNCHANGED <<mvars, accepted, active_connections, conn, inbox, outbox, peer_closed, pending,
                   socket_file, lines_sent, session_log>>

\* handle_client: framed.next() yields a line or a read error; process_command up to
\* its first wait
HandlerRead(c) ==
    /\ AtSelect(c)
    /\ inbox[c] # <<>>
    /\ LET line == Head(inbox[c]) IN
       CASE line.kind = "invalid_utf8" ->
              /\ DropStream(c, "returned")
              /\ UNCHANGED <<queue, resp, nextId>>
         [] line.kind = "malformed" ->
              /\ inbox' = [inbox EXCEPT ![c] = Tail(@)]
              /\ conn' = [conn EXCEPT ![c] = DecodeFailure(line).next]
              /\ session_log' = [session_log EXCEPT ![c] = Append(@, LogRead(line))]
              /\ pending' = [pending EXCEPT ![c] =
                    [id |-> NoId, cmd |-> 0, response |-> DecodeFailure(line).response]]
              /\ UNCHANGED <<queue, resp, nextId>>
         [] line.kind = "ping" ->
              /\ inbox' = [inbox EXCEPT ![c] = Tail(@)]
              /\ conn' = [conn EXCEPT ![c] = "send"]
              /\ session_log' = [session_log EXCEPT ![c] = Append(@, LogRead(line))]
              /\ pending' = [pending EXCEPT ![c] =
                    [id |-> line.id, cmd |-> 0, response |-> Success(line.id, Pong)]]
              /\ UNCHANGED <<queue, resp, nextId>>
         [] line.kind = "command" /\ QueueClosed ->
              /\ inbox' = [inbox EXCEPT ![c] = Tail(@)]
              /\ conn' = [conn EXCEPT ![c] = "send"]
              /\ session_log' = [session_log EXCEPT ![c] = Append(@, LogRead(line))]
              /\ pending' = [pending EXCEPT ![c] =
                    [id |-> line.id, cmd |-> 0, response |-> Error(line.id, ChannelClosed.msg)]]
              /\ UNCHANGED <<queue, resp, nextId>>
         [] OTHER ->
              /\ Enqueue(line.cmd)
              /\ inbox' = [inbox EXCEPT ![c] = Tail(@)]
              /\ conn' = [conn EXCEPT ![c] = "await"]
              /\ session_log' = [session_log EXCEPT ![c] = Append(@, LogRead(line))]
              /\ pending' = [pending EXCEPT ![c] = [id |-> line.id, cmd |-> nextId, response |-> NoResponse]]
    /\ IF Head(inbox[c]).kind = "invalid_utf8" THEN TRUE ELSE UNCHANGED <<outbox, peer_closed>>
    /\ UNCHANGED <<controllers, axes, cache, loop_pc, cur, events, last_done, admin, sleep_ms, trait_call, now>>
    /\ UNCHANGED <<accept_pc, accepted, active_connections, sig, socket_file, lines_sent>>

\* execute_command: rx.await returns the manager's result; process_command wraps it
HandlerResponse(c) ==
    /\ conn[c] = "await"
    /\ RxAwait(resp[pending[c].cmd]).resolved
    /\ LET result == RxAwait(resp[pending[c].cmd]).result IN
       pending' = [pending EXCEPT ![c].response =
                      IF result.ok THEN Success(pending[c].id, result)
                      ELSE Error(pending[c].id, result.msg)]
    /\ conn' = [conn EXCEPT ![c] = "send"]
    /\ UNCHANGED <<mvars, accept_pc, accepted, active_connections, inbox, outbox, peer_closed,
                   sig, socket_file, lines_sent, session_log>>

\* serialize_response(&response)? : an Err ends handle_client at once
HandlerSerializeError(c) ==
    /\ conn[c] = "send"
    /\ DropStream(c, "failed")
    /\ UNCHANGED <<mvars, accept_pc, accepted, active_connections,
                   sig, socket_file, lines_sent>>

\* framed.send(response_json): the line is written, the loop goes round
HandlerSend(c) ==
    /\ conn[c] = "send"
    /\ ~peer_closed[c]
    /\ Len(outbox[c]) < SockBuf
    /\ outbox' = [outbox EXCEPT ![c] = Append(@, pending[c].response)]
    /\ conn' = [conn EXCEPT ![c] = "select"]
    /\ pending' = [pending EXCEPT ![c] = NoPending]
    /\ session_log' = [session_log EXCEPT ![c] = Append(@, LogWrite(pending[c].response))]
    /\ UNCHANGED <<mvars, accept_pc, accepted, active_connections, inbox, peer_closed,
                   sig, socket_file, lines_sent>>

\* framed.send fails, the peer being gone: break
HandlerSendError(c) ==
    /\ conn[c] = "send"
    /\ peer_closed[c]
    /\ DropStream(c, "returned")
    /\ UNCHANGED <<mvars, accept_pc, accepted, active_connections,
                   sig, socket_file, lines_sent>>

\* framed.next() yields None: the client disconnected
HandlerEof(c) ==
    /\ AtSelect(c)
    /\ inbox[c] = <<>> /\ peer_closed[c]
    /\ DropStream(c, "returned")
    /\ UNCHANGED <<mvars, accept_pc, accepted, active_connections,
                   sig, socket_file, lines_sent>>

\* the handler takes the shutdown branch of its select
HandlerShutdown(c) ==
    /\ AtSelect(c)
    /\ c \in sig
    /\ DropStream(c, "returned")
    /\ sig' = sig \ {c}
    /\ UNCHANGED <<mvars, accept_pc, accepted, active_connections,
                   socket_file, lines_sent>>

\* the spawned task ends: the counter is decremented
HandlerExit(c) ==
    /\ conn[c] \in {"returned", "failed"}
    /\ active_connections' = AfterHandler(active_connections, conn[c])
    /\ conn' = [conn EXCEPT ![c] = "done"]
    /\ sig' = sig \ {c}
    /\ UNCHANGED <<mvars, accept_pc, accepted, inbox, outbox, peer_closed, pending,
                   socket_file, lines_sent, session_log>>

(***************************************************************************)
(* Spec: the dispatch loop under commands of all nine kinds.               *)
(***************************************************************************)
DispatchRequests ==
    { Move("c1", "X", 10, NoParams),
      Move("c1", "Z", 10, SomeParams(MovementParams(NoneF, SomeF(500), NoneF))),
      Move("c2", "X", 10, NoParams),
      Stop("c1", "X"),
      GetState("c1", "X"),
      GetPos("c1", "X"),
      GetPos("c1", "Q"),
      GetAttr("c1", "X", "velocity"),
      GetAvailableParams("c1", "Z"),
      GetSupportedMovementParams("c1", "Z"),
      ListControllers,
      ListAxes("c2") }

Init == MInit /\ SInit /\ trait_call = NoCall({})

Next ==
    \/ \E cmd \in DispatchRequests : send_command(cmd)
    \/ \E id \in 1..MaxCmds : DropReceiver(id)
    \/ Dispatch

Spec == Init /\ [][Next]_vars


(***************************************************************************)
(* SpecCache: reads, motion, registration and eviction.                    *)
(***************************************************************************)
CacheRequests ==
    { Move("c1", "X", 10, NoParams),
      Move("c1", "Z", 10, SomeParams(MovementParams(NoneF, SomeF(500), NoneF))),
      Stop("c1", "X"),
      GetPos("c1", "X"),
      GetState("c1", "X"),
      GetAttr("c1", "X", "velocity"),
      GetAttr("c1", "X", "bogus") }

NextCache ==
    \/ \E cmd \in CacheRequests : send_command(cmd)
    \/ \E n \in {"c1"}, i \in Instances : register_controller(n, i)
    \/ \E n \in {"c1"} : unregister_controller(n, TRUE)
    \/ Recv
    \/ DoMove
    \/ MoveDone
    \/ DoStop
    \/ DoGetState
    \/ DoGetPos
    \/ DoGetAttr
    \/ \E key \in DOMAIN cache : CacheEvict(key)

SpecCache == Init /\ [][NextCache]_vars

(***************************************************************************)
(* SpecTtl: cached reads as time passes.                                   *)
(***************************************************************************)
TtlRequests ==
    { GetPos("c1", "X"),
      GetState("c1", "X"),
      GetAttr("c1", "X", "velocity") }

NextTtl ==
    \/ \E cmd \in TtlRequests : send_command(cmd)
    \/ Recv
    \/ DoGetState
    \/ DoGetPos
    \/ DoGetAttr
    \/ Tick

SpecTtl == Init /\ [][NextTtl]_vars


(***************************************************************************)
(* What the properties speak about.                                        *)
(***************************************************************************)
Enqueued == 1..(nextId - 1)
Dequeued == Enqueued \ InQueue
Answered == {id \in 1..MaxCmds : resp[id].sends > 0}
Executing == Dequeued \ Answered

IsCachedRead(cmd) == cmd.kind \in {"GetPos", "GetState", "GetAttr"}
KeyOf(cmd) ==
    cache_key(cmd.controller, cmd.axis,
              CASE cmd.kind = "GetState" -> "status"
                [] cmd.kind = "GetAttr" -> cmd.attr
                [] OTHER -> "position")
PositionKey(cmd) == cache_key(cmd.controller, cmd.axis, "position")

\* the handler of a cached read, run on registry ctrls, backend ax_of and cache c
RunRead(ctrls, ax_of, c, t, cmd) ==
    CASE cmd.kind = "GetState" -> handle_get_state(ctrls, ax_of, c, t, cmd.controller, cmd.axis)
      [] cmd.kind = "GetAttr" -> handle_get_attr(ctrls, ax_of, c, t, cmd.controller, cmd.axis, cmd.attr)
      [] OTHER -> handle_get_pos(ctrls, ax_of, c, t, cmd.controller, cmd.axis)

(***************************************************************************)
(* C1: at most one command is being executed at any moment: a command that *)
(* has been dequeued and not yet answered is the one the dispatch loop     *)
(* holds, and the loop is back at rx.recv() only when none is left.        *)
(***************************************************************************)
C1_OneAtATime ==
    /\ Cardinality(Executing) <= 1
    /\ loop_pc = "recv" => Executing = {}
    /\ loop_pc # "recv" => Executing = {cur.id}

\* a Move is asleep in the backend while the next command waits in the queue
C1_Witness == loop_pc = "sleep" /\ Len(queue) > 0 /\ resp[cur.id].sends = 0

(***************************************************************************)
(* C2: commands are executed and answered in the order send_command        *)
(* enqueued them: no backend call and no response of a command occurs      *)
(* before the response of every command enqueued before it.                *)
(***************************************************************************)
C2_InOrder ==
    \A j \in 1..Len(events) :
        \A a \in 1..(events[j].id - 1) :
            \E i \in 1..(j - 1) : events[i] = [type |-> "resp", id |-> a]

\* a slow Move on c1 was answered first, then a command for another controller
C2_Witness ==
    /\ last_done.cmd.id = 2
    /\ last_done.cmd.controller = "c2"
    /\ events[1] = [type |-> "backend", id |-> 1]
    /\ axes["m1"]["X"].position = 10

(***************************************************************************)
(* C3: the response destination of every dequeued command is fulfilled     *)
(* exactly once, with a success or an error value, on every path: one send *)
(* for each command whose handler is over, none for the others.            *)
(***************************************************************************)
C3_ExactlyOnce ==
    \A id \in 1..MaxCmds :
        /\ resp[id].sends = IF id \in Dequeued /\ ~(loop_pc # "recv" /\ cur.id = id) THEN 1 ELSE 0
        /\ resp[id].state = "ready" => resp[id].val # NoResult

\* the early failure: the controller is not registered, and the command is answered
C3_Witness ==
    /\ last_done.res = ControllerNotFound("c2")
    /\ resp[last_done.cmd.id].sends = 1
    /\ resp[last_done.cmd.id].val = last_done.res

(***************************************************************************)
(* C4: when a successful Move on (controller, axis) has been answered, the *)
(* position key of the pair is absent from the cache, and a GetPos for the *)
(* pair executed next is not served from the cache.                        *)
(***************************************************************************)
C4_MoveInvalidates ==
    (last_done.cmd.kind = "Move" /\ last_done.res.ok) =>
        /\ ~CacheHas(cache, PositionKey(last_done.cmd))
        /\ LET out == handle_get_pos(controllers, axes, cache, now,
                                     last_done.cmd.controller, last_done.cmd.axis)
           IN  out.res.ok => out.backend

\* the position was cached, with another value, when the Move succeeded
C4_Witness ==
    /\ last_done.cmd.kind = "Move" /\ last_done.res.ok
    /\ CacheHas(last_done.before, PositionKey(last_done.cmd))
    /\ CacheGet(last_done.before, PositionKey(last_done.cmd)) # JNum(last_done.cmd.target)

(***************************************************************************)
(* C5: when a successful Stop on (controller, axis) has been answered, the *)
(* position key of the pair is absent from the cache.                      *)
(***************************************************************************)
C5_StopInvalidates ==
    (last_done.cmd.kind = "Stop" /\ last_done.res.ok) =>
        ~CacheHas(cache, PositionKey(last_done.cmd))

\* a Stop succeeded and the position cached before it is still in the cache
C5_Witness ==
    /\ last_done.cmd.kind = "Stop" /\ last_done.res.ok
    /\ CacheHas(cache, PositionKey(last_done.cmd))

(***************************************************************************)
(* C6: a cached read never returns an entry that was inserted more than    *)
(* default_ttl before the read is executed.                                *)
(***************************************************************************)
C6_EntriesExpire ==
    (IsCachedRead(last_done.cmd) /\ CacheHas(last_done.before, KeyOf(last_done.cmd))
        /\ last_done.at - last_done.before[KeyOf(last_done.cmd)].at > default_ttl) =>
        last_done.res.val # CacheGet(last_done.before, KeyOf(last_done.cmd))

\* a cached read was served an entry older than default_ttl
C6_Witness ==
    /\ IsCachedRead(last_done.cmd) /\ CacheHas(last_done.before, KeyOf(last_done.cmd))
    /\ last_done.at - last_done.before[KeyOf(last_done.cmd)].at > default_ttl
    /\ last_done.res.val = CacheGet(last_done.before, KeyOf(last_done.cmd))

(***************************************************************************)
(* C7: for a cached read, the kind of outcome (success or error) does not  *)
(* depend on whether its key is in the cache: with the entry removed, the  *)
(* same request on the same registry and backend succeeds or fails alike.  *)
(***************************************************************************)
C7_HitMissSameOutcome ==
    \A cmd \in {r \in CacheRequests : IsCachedRead(r)} :
        RunRead(controllers, axes, cache, now, cmd).res.ok
            = RunRead(controllers, axes, CacheInvalidate(cache, KeyOf(cmd)), now, cmd).res.ok

\* an entry is cached for a controller that is no longer registered
C7_Witness ==
    \E cmd \in {r \in CacheRequests : IsCachedRead(r)} :
        /\ Lookup(controllers, cmd.controller) = NoCtrl
        /\ CacheHas(cache, KeyOf(cmd))


(***************************************************************************)
(* SpecServer: admission, sessions that answer by themselves, shutdown.    *)
(***************************************************************************)
ServerLines == {Ping(NoId), InvalidUtf8}

NextServer ==
    \/ Start
    \/ Shutdown
    \/ \E c \in Conns : ClientConnect(c)
    \/ \E c \in Conns, line \in ServerLines : ClientSend(c, line)
    \/ \E c \in Conns : ClientRead(c)
    \/ \E c \in Conns : ClientClose(c)
    \/ \E c \in Conns : AcceptConn(c)
    \/ Reject
    \/ Admit
    \/ AcceptShutdown
    \/ \E c \in Conns : HandlerRead(c)
    \/ \E c \in Conns : HandlerSerializeError(c)
    \/ \E c \in Conns : HandlerSend(c)
    \/ \E c \in Conns : HandlerSendError(c)
    \/ \E c \in Conns : HandlerEof(c)
    \/ \E c \in Conns : HandlerShutdown(c)
    \/ \E c \in Conns : HandlerExit(c)

SpecServer == Init /\ [][NextServer]_vars


(***************************************************************************)
(* SpecShutdown: sessions that forward a slow Move, under fair scheduling. *)
(* Every task that can run does run; a select whose shutdown branch is     *)
(* ready again and again takes it; the clients are free to stop.           *)
(***************************************************************************)
ShutdownLines == {Ping(NoId), Request(Move("c1", "X", 10, NoParams), NoId)}

NextShutdown ==
    \/ Start
    \/ Shutdown
    \/ \E c \in Conns : ClientConnect(c)
    \/ \E c \in Conns, line \in ShutdownLines : ClientSend(c, line)
    \/ \E c \in Conns : ClientRead(c)
    \/ \E c \in Conns : ClientClose(c)
    \/ \E c \in Conns : AcceptConn(c)
    \/ Reject
    \/ Admit
    \/ AcceptShutdown
    \/ \E c \in Conns : HandlerRead(c)
    \/ \E c \in Conns : HandlerResponse(c)
    \/ \E c \in Conns : HandlerSerializeError(c)
    \/ \E c \in Conns : HandlerSend(c)
    \/ \E c \in Conns : HandlerSendError(c)
    \/ \E c \in Conns : HandlerEof(c)
    \/ \E c \in Conns : HandlerShutdown(c)
    \/ \E c \in Conns : HandlerExit(c)
    \/ Recv
    \/ DoMove
    \/ MoveDone

FairTasks ==
    /\ WF_vars(Reject)
    /\ WF_vars(Admit)
    /\ SF_vars(AcceptShutdown)
    /\ WF_vars(Recv)
    /\ WF_vars(DoMove)
    /\ WF_vars(MoveDone)
    /\ \A c \in Conns :
        /\ WF_vars(HandlerResponse(c))
        /\ WF_vars(HandlerSend(c))
        /\ WF_vars(HandlerSendError(c))
        /\ SF_vars(HandlerShutdown(c))
        /\ WF_vars(HandlerExit(c))

SpecShutdown == Init /\ [][NextShutdown]_vars /\ FairTasks

(***************************************************************************)
(* C8: the active connections never exceed max_connections: a connection   *)
(* accepted while the counter is at or above the ceiling is declined, no   *)
(* handler is spawned for it and the counter is left as it is.             *)
(***************************************************************************)
C8_Ceiling ==
    /\ [](/\ active_connections <= max_connections
          /\ Cardinality({c \in Conns : HandlerRunning(c)}) <= max_connections)
    /\ [][(accept_pc = "accepted" /\ accepted.current_connections >= max_connections
             /\ accept_pc' # "accepted")
          => (conn'[accepted.conn] = "declined" /\ active_connections' = active_connections)]_vars

\* a connection was declined while the counter stood at the ceiling
C8_Witness ==
    /\ active_connections = max_connections
    /\ \E c \in Conns : conn[c] = "declined"

(***************************************************************************)
(* C9: the counter equals the number of admitted connections whose handler *)
(* task has not ended, whichever way the handler ends, and is never below  *)
(* zero.                                                                   *)
(***************************************************************************)
C9_CounterExact ==
    /\ active_connections = Cardinality({c \in Conns : HandlerRunning(c)})
    /\ active_connections >= 0

\* a handler ended, and at the ceiling a later connection was admitted in its place
C9_Witness ==
    /\ conn[1] = "done"
    /\ conn[2] = "select"
    /\ active_connections = max_connections

(***************************************************************************)
(* C10: after a broadcast the acceptance loop eventually exits, and every  *)
(* per-connection loop that was live at the broadcast eventually ends.     *)
(***************************************************************************)
C10_ShutdownTerminates ==
    /\ [](AcceptRx \in sig => <>(accept_pc = "exited"))
    /\ \A c \in Conns : []((c \in sig /\ HandlerLive(c)) => <>(conn[c] = "done"))

\* the signal was broadcast while a handler is writing to a client that reads nothing
C10_Witness ==
    \E c \in Conns :
        /\ c \in sig /\ conn[c] = "send"
        /\ ~peer_closed[c] /\ Len(outbox[c]) = SockBuf

(***************************************************************************)
(* C11: a session that holds the shutdown signal while it awaits the       *)
(* response of a command it forwarded does not go on to take that          *)
(* response: it ends without waiting for the command and writes nothing.   *)
(***************************************************************************)
C11_NoWaitOnShutdown ==
    [][\A c \in Conns :
         (c \in sig /\ conn[c] = "await") => conn'[c] \in {"await", "returned"}]_vars

\* the signal was broadcast while a session awaits the manager
C11_Witness == \E c \in Conns : c \in sig /\ conn[c] = "await" /\ resp[pending[c].cmd].state = "waiting"

(***************************************************************************)
(* SpecSession: one session after another, lines of every kind, with and   *)
(* without an id; the manager answers, or its loop goes away.  A session   *)
(* whose awaited receiver has completed is scheduled.                      *)
(***************************************************************************)
SessionLines ==
    { Ping(SomeId("a")),
      Ping(NoId),
      MalformedWithId(SomeId("a")),
      InvalidUtf8,
      Request(GetPos("c1", "X"), SomeId("a")),
      Request(GetPos("c2", "X"), SomeId("b")),
      Request(GetPos("c2", "X"), NoId) }

\* one client connects
SessionConns == {1}

NextSession ==
    \/ Start
    \/ Shutdown
    \/ \E c \in SessionConns : ClientConnect(c)
    \/ \E c \in SessionConns, line \in SessionLines : ClientSend(c, line)
    \/ \E c \in SessionConns : ClientRead(c)
    \/ \E c \in SessionConns : ClientClose(c)
    \/ \E c \in SessionConns : AcceptConn(c)
    \/ Admit
    \/ AcceptShutdown
    \/ \E c \in SessionConns : HandlerRead(c)
    \/ \E c \in SessionConns : HandlerResponse(c)
    \/ \E c \in SessionConns : HandlerSerializeError(c)
    \/ \E c \in SessionConns : HandlerSend(c)
    \/ \E c \in SessionConns : HandlerSendError(c)
    \/ \E c \in SessionConns : HandlerEof(c)
    \/ \E c \in SessionConns : HandlerShutdown(c)
    \/ \E c \in SessionConns : HandlerExit(c)
    \/ Recv
    \/ DoGetPos
    \/ LoopAbort

FairSession == \A c \in SessionConns : WF_vars(HandlerResponse(c))

SpecSession == Init /\ [][NextSession]_vars /\ FairSession

(***************************************************************************)
(* C12: on a connection the lines read and the responses written           *)
(* alternate, beginning with a read: each request read gets one response,  *)
(* a success or an error, before the next line is read; a session at its   *)
(* select owes no response, a session at work owes exactly one.            *)
(***************************************************************************)
C12_OneResponsePerRequest ==
    \A c \in Conns :
        LET log == session_log[c] IN
        /\ \A i \in 1..Len(log) : log[i].op = (IF i % 2 = 1 THEN "read" ELSE "write")
        /\ \A i \in 1..Len(log) : log[i].op = "write" => log[i].kind \in {"success", "error"}
        /\ conn[c] = "select" => Len(log) % 2 = 0
        /\ conn[c] \in {"await", "send"} => Len(log) % 2 = 1

\* a session answered two requests, one with an error and one with a success
C12_Witness ==
    /\ Len(session_log[1]) = 4
    /\ session_log[1][2].kind = "error"
    /\ session_log[1][4].kind = "success"

C19_IdEchoed ==
    \A c \in Conns : \A i \in 1..Len(session_log[c]) :
        i % 2 = 0 =>
            session_log[c][i].id = IF session_log[c][i - 1].kind = "malformed"
                                   THEN NoId
                                   ELSE session_log[c][i - 1].id

\* an error response of the manager went out with the id of its request, and the line
\* before it, which did not decode although it held an id, was answered without one
C19_Witness ==
    /\ Len(session_log[1]) = 4
    /\ session_log[1][1] = [op |-> "read", kind |-> "malformed", id |-> SomeId("a")]
    /\ session_log[1][2] = [op |-> "write", kind |-> "error", id |-> NoId]
    /\ session_log[1][3] = [op |-> "read", kind |-> "command", id |-> SomeId("b")]
    /\ session_log[1][4] = [op |-> "write", kind |-> "error", id |-> SomeId("b")]

(***************************************************************************)
(* C20: a session does not wait forever for a response that cannot come:   *)
(* when the sender of the response it awaits has been dropped unfulfilled  *)
(* the session leaves its wait, and what it then holds for the request is  *)
(* an error; a request read when the queue is closed gets an error too and *)
(* is never awaited.                                                       *)
(***************************************************************************)
C20_CancelObserved ==
    /\ \A c \in SessionConns :
          [](conn[c] = "await" /\ resp[pending[c].cmd].state = "closed" => <>(conn[c] # "await"))
    /\ [](\A c \in Conns :
            /\ (conn[c] = "send" /\ pending[c].cmd # 0 /\ resp[pending[c].cmd].state = "closed")
                  => pending[c].response = Error(pending[c].id, "channel closed")
            /\ (conn[c] = "await" /\ QueueClosed) => resp[pending[c].cmd].state \in {"ready", "closed"})
    /\ [][\A c \in Conns :
            (QueueClosed /\ Len(session_log'[c]) = Len(session_log[c]) + 1
                /\ session_log'[c][Len(session_log'[c])].kind = "command")
            => (conn'[c] = "send" /\ pending'[c].response.status = "error")]_vars

\* the loop went away while a session awaited its command: the session holds an error for it
C20_Witness ==
    /\ conn[1] = "send"
    /\ pending[1].cmd # 0
    /\ resp[pending[1].cmd].state = "closed"
    /\ pending[1].response.status = "error"

(***************************************************************************)
(* C14: no command failure ends the dispatch loop: whatever the commands   *)
(* answered so far returned, and whether or not their waiters were still   *)
(* there, the loop takes the next command as soon as one is queued, and    *)
(* handles the command it holds.                                           *)
(***************************************************************************)
C14_LoopSurvives ==
    /\ (Executing = {} /\ queue # <<>>) => ENABLED Recv
    /\ Executing # {} => ENABLED Dispatch
    /\ (last_done.cmd # NoCmd /\ (~last_done.res.ok \/ resp[last_done.cmd.id].state = "dropped"))
          => loop_pc \in {"recv", "handle", "sleep"}

\* a command whose waiter was gone, then a command that failed, then one that succeeded
C14_Witness ==
    /\ resp[1].state = "dropped" /\ resp[1].sends = 1
    /\ resp[2].state = "ready" /\ ~resp[2].val.ok
    /\ last_done.cmd.id = 3 /\ last_done.res.ok

(***************************************************************************)
(* SpecRegistry: the registry changes under the dispatch loop; commands    *)
(* for names that are bound, unbound, and bound again.                     *)
(***************************************************************************)
RegistryRequests ==
    { Move("c1", "Z", 10, SomeParams(MovementParams(NoneF, SomeF(500), NoneF))),
      Stop("c1", "X"),
      ListControllers }

NextRegistry ==
    \/ \E cmd \in RegistryRequests : send_command(cmd)
    \/ \E n \in Names, i \in Instances : register_controller(n, i)
    \/ \E n \in Names, shutdown_ok \in BOOLEAN : unregister_controller(n, shutdown_ok)
    \/ Recv
    \/ DoMove
    \/ DoStop
    \/ DoListControllers

SpecRegistry == Init /\ [][NextRegistry]_vars

(***************************************************************************)
(* SpecNotFound: commands of the kinds that resolve the controller first,  *)
(* for a name that is bound at times and unbound at others.                *)
(***************************************************************************)
NotFoundRequests ==
    { Move("c2", "X", 10, NoParams),
      Stop("c2", "X"),
      ListAxes("c2"),
      GetAvailableParams("c2", "X"),
      GetSupportedMovementParams("c2", "X"),
      GetPos("c1", "X") }

NextNotFound ==
    \/ \E cmd \in NotFoundRequests : send_command(cmd)
    \/ register_controller("c2", "m2")
    \/ unregister_controller("c2", TRUE)
    \/ Recv
    \/ DoMove
    \/ MoveDone
    \/ DoStop
    \/ DoGetPos
    \/ DoGetAvailableParams
    \/ DoGetSupportedMovementParams
    \/ DoListAxes

SpecNotFound == Init /\ [][NextNotFound]_vars

Registered(ctrls) == {n \in DOMAIN ctrls : ctrls[n] # NoCtrl}

(***************************************************************************)
(* C15: no step of the dispatch loop changes the registry, whatever the    *)
(* command returns; the registry changes only in a call of                 *)
(* register_controller or unregister_controller, from the registry the     *)
(* call met to the one it left.                                            *)
(***************************************************************************)
C15_CommandsKeepRegistry ==
    [][/\ (loop_pc' # loop_pc \/ last_done' # last_done \/ events' # events \/ resp' # resp)
            => controllers' = controllers
       /\ controllers' # controllers
            => (admin'.before = controllers /\ admin'.after = controllers')]_vars

\* a Move the backend rejected was answered with its controller still registered
C15_Witness ==
    /\ last_done.cmd.kind = "Move" /\ last_done.cmd.axis = "Z" /\ ~last_done.res.ok
    /\ last_done.res # Err("Controller not found: c1")
    /\ controllers["c1"] # NoCtrl

(***************************************************************************)
(* C16: unregister_controller(name) leaves name unbound and the other      *)
(* names as they were; when name was bound the shutdown of the controller  *)
(* removed is called once and its result is the result of the call; when   *)
(* name was not bound the call succeeds, calls no shutdown and changes     *)
(* nothing.                                                                *)
(***************************************************************************)
C16_Unregister ==
    admin.op = "unregister" =>
        /\ admin.after[admin.name] = NoCtrl
        /\ \A n \in Names \ {admin.name} : admin.after[n] = admin.before[n]
        /\ admin.before[admin.name] # NoCtrl => admin.shutdowns = 1
        /\ admin.before[admin.name] = NoCtrl =>
              (admin.ok /\ admin.shutdowns = 0 /\ admin.after = admin.before)

\* the shutdown of the controller removed failed: the call failed, the name is unbound
C16_Witness ==
    /\ admin.op = "unregister" /\ ~admin.ok
    /\ admin.before[admin.name] # NoCtrl
    /\ controllers[admin.name] = NoCtrl

(***************************************************************************)
(* C17: register_controller(name, c) succeeds and binds name to c, bound   *)
(* before or not; the other names keep their bindings and an overwrite     *)
(* does not add a name; ListControllers returns the names bound when it    *)
(* is executed.                                                            *)
(***************************************************************************)
C17_Register ==
    /\ [](admin.op = "register" =>
            /\ admin.ok
            /\ admin.after[admin.name] = admin.inst
            /\ \A n \in Names \ {admin.name} : admin.after[n] = admin.before[n]
            /\ admin.before[admin.name] # NoCtrl =>
                  Cardinality(Registered(admin.after)) = Cardinality(Registered(admin.before)))
    /\ [][(last_done' # last_done /\ last_done'.cmd.kind = "ListControllers")
            => (last_done'.res.ok /\ last_done'.res.names = Registered(controllers))]_vars

\* a name bound to one controller was bound to another, and ListControllers then named
\* both names after the second was registered too
C17_Witness ==
    /\ admin.op = "register"
    /\ admin.before[admin.name] \notin {NoCtrl, admin.inst}
    /\ last_done.cmd.kind = "ListControllers"
    /\ last_done.res.names = {"c1", "c2"}

(***************************************************************************)
(* C18: Move, Stop, ListAxes, GetAvailableParams and                       *)
(* GetSupportedMovementParams for a name that is unbound when the command  *)
(* is executed return "Controller not found: <name>", call no backend      *)
(* method and leave the cache as it was.                                   *)
(***************************************************************************)
C18_ControllerNotFound ==
    [][(/\ last_done' # last_done
        /\ last_done'.cmd.kind \in {"Move", "Stop", "ListAxes", "GetAvailableParams",
                                    "GetSupportedMovementParams"}
        /\ controllers[last_done'.cmd.controller] = NoCtrl)
       => (/\ last_done'.res = Err("Controller not found: " \o last_done'.cmd.controller)
           /\ cache' = cache
           /\ axes' = axes
           /\ events' = Append(events, [type |-> "resp", id |-> last_done'.cmd.id]))]_vars

\* a Stop for an unbound name was answered with the error while the cache held an entry
C18_Witness ==
    /\ last_done.cmd.kind = "Stop"
    /\ last_done.res = Err("Controller not found: c2")
    /\ cache # EmptyCache

(***************************************************************************)
(* SpecMotion: Move and Stop commands for one controller, some of them     *)
(* rejected by the backend.  The loop's task is scheduled and the sleep    *)
(* inside start comes to its end.                                          *)
(***************************************************************************)
NextMotion ==
    \/ \E cmd \in { Move("c1", "X", 10, NoParams),
                    Move("c1", "X", 20, SomeParams(MovementParams(SomeF(50), NoneF, NoneF))),
                    Move("c1", "X", 30, SomeParams(MovementParams(NoneF, NoneF, NoneF))),
                    Move("c1", "Z", 10, SomeParams(MovementParams(NoneF, SomeF(500), NoneF))),
                    Move("c1", "Q", 10, NoParams),
                    Stop("c1", "X"),
                    GetPos("c1", "X"),
                    GetPos("c1", "Z") } : send_command(cmd)
    \/ Recv
    \/ DoMove
    \/ MoveDone
    \/ DoStop
    \/ DoGetPos

SpecMotion ==
    Init /\ [][NextMotion]_vars
         /\ WF_vars(Recv) /\ WF_vars(DoMove) /\ WF_vars(MoveDone) /\ WF_vars(DoStop) /\ WF_vars(DoGetPos)

(***************************************************************************)
(* C21: under any sequence of Move and Stop commands an axis changes state *)
(* only between On and Moving; a Move that starts the motion finds the     *)
(* axis not Moving; an axis that is Moving is later not Moving.            *)
(***************************************************************************)
C21_MovingIsTransient ==
    /\ [][\A i \in Instances, a \in AxisNames :
            axes'[i][a].state # axes[i][a].state =>
                <<axes[i][a].state, axes'[i][a].state>> \in {<<"On", "Moving">>, <<"Moving", "On">>}]_vars
    /\ [][(loop_pc = "handle" /\ loop_pc' = "sleep") =>
            /\ axes[Lookup(controllers, cur.controller)][cur.axis].state # "Moving"
            /\ axes'[Lookup(controllers, cur.controller)][cur.axis].state = "Moving"]_vars
    /\ \A i \in Instances, a \in AxisNames :
            (axes[i][a].state = "Moving") ~> (axes[i][a].state # "Moving")

\* a second Move of the same axis is in motion after the first was acknowledged
C21_Witness ==
    /\ loop_pc = "sleep" /\ cur.kind = "Move"
    /\ last_done.cmd.kind = "Move" /\ last_done.res.ok
    /\ last_done.cmd.axis = cur.axis /\ last_done.cmd.controller = cur.controller
    /\ axes["m1"]["X"].state = "Moving"

(***************************************************************************)
(* SpecKeys: reads of every cached kind and the capability queries, for    *)
(* two axes, with attribute names that meet the keys of the other kinds,   *)
(* and a Move between them.                                                *)
(***************************************************************************)
NextKeys ==
    \/ \E cmd \in { Move("c1", "X", 10, NoParams),
                    GetPos("c1", "X"),
                    GetPos("c1", "Y"),
                    GetState("c1", "X"),
                    GetAttr("c1", "X", "velocity"),
                    GetAttr("c1", "X", "position"),
                    GetAttr("c1", "X", "status"),
                    GetAvailableParams("c1", "X"),
                    GetSupportedMovementParams("c1", "X") } : send_command(cmd)
    \/ Recv
    \/ DoMove
    \/ MoveDone
    \/ DoGetState
    \/ DoGetPos
    \/ DoGetAttr
    \/ DoGetAvailableParams
    \/ DoGetSupportedMovementParams

SpecKeys == Init /\ [][NextKeys]_vars

(***************************************************************************)
(* C22: the step that answers a successful Move on (controller, axis)      *)
(* removes the key "{controller}::{axis}::position" from the cache and     *)
(* nothing else: every other entry is there afterwards with the value and  *)
(* the age it had.                                                         *)
(***************************************************************************)
C22_MoveKeepsOtherKeys ==
    [][(last_done' # last_done /\ last_done'.cmd.kind = "Move" /\ last_done'.res.ok) =>
          /\ DOMAIN cache' = DOMAIN cache \ {PositionKey(last_done'.cmd)}
          /\ \A k \in DOMAIN cache' : cache'[k] = cache[k]]_vars

\* a Move was answered with the status of its axis and the position of another axis cached
C22_Witness ==
    /\ last_done.cmd.kind = "Move" /\ last_done.res.ok
    /\ DOMAIN last_done.before \in {{"c1::X::position", "c1::X::status"}, {"c1::X::status", "c1::Y::position"}}
    /\ DOMAIN cache = DOMAIN last_done.before \ {"c1::X::position"}

(***************************************************************************)
(* C23: the step that answers a GetPos, GetState or GetAttr whose key is   *)
(* cached returns the cached value, calls no backend method and leaves the *)
(* cache as it is; on a miss that succeeds it inserts the value returned   *)
(* under that key and nothing else, after a backend call, and the same     *)
(* read run next is a hit that returns that value without a backend call.  *)
(***************************************************************************)
C23_HitAndMiss ==
    [][(last_done' # last_done /\ IsCachedRead(last_done'.cmd)) =>
          LET cmd == last_done'.cmd
              key == KeyOf(cmd)
              res == last_done'.res
              again == RunRead(controllers', axes', cache', now', cmd)
          IN  /\ CacheHas(cache, key) =>
                    /\ res.ok /\ res.val = CacheGet(cache, key)
                    /\ events' = Append(events, [type |-> "resp", id |-> cmd.id])
                    /\ cache' = cache
              /\ (~CacheHas(cache, key) /\ res.ok) =>
                    /\ events' = events \o <<[type |-> "backend", id |-> cmd.id],
                                             [type |-> "resp", id |-> cmd.id]>>
                    /\ cache' = CacheInsert(cache, key, res.val, now)
                    /\ DOMAIN cache' = DOMAIN cache \cup {key}
                    /\ \A k \in DOMAIN cache : cache'[k] = cache[k]
                    /\ again.res.ok /\ again.res.val = res.val /\ ~again.backend]_vars

\* a GetPos missed and cached 0, and the next GetPos of the axis was served that value
\* from the cache
C23_Witness ==
    /\ last_done.cmd.kind = "GetPos"
    /\ CacheHas(last_done.before, KeyOf(last_done.cmd))
    /\ last_done.res.val = CacheGet(last_done.before, KeyOf(last_done.cmd))
    /\ Len(events) = 3
    /\ events[1] = [type |-> "backend", id |-> 1]
    /\ events[3] = [type |-> "resp", id |-> 2]

(***************************************************************************)
(* C24: a Move the backend rejects (the axis does not take an acceleration *)
(* parameter, the axis is unknown) is answered with the backend's error,   *)
(* not with an acknowledgement, and the cache is left as it was: the       *)
(* position key of the axis is not invalidated.                            *)
(***************************************************************************)
C24_RejectedMove ==
    [][(/\ last_done' # last_done /\ last_done'.cmd.kind = "Move"
        /\ Lookup(controllers, last_done'.cmd.controller) # NoCtrl
        /\ (\/ start_rejects(last_done'.cmd.axis, last_done'.cmd.params)
            \/ ~get_axis(Lookup(controllers, last_done'.cmd.controller), last_done'.cmd.axis).ok))
       => (/\ ~last_done'.res.ok
           /\ last_done'.res.msg =
                IF last_done'.cmd.axis \in AxisNames
                THEN "Axis " \o last_done'.cmd.axis \o " does not support acceleration parameter"
                ELSE "Axis not found: " \o last_done'.cmd.axis \o " in controller "
                        \o Lookup(controllers, last_done'.cmd.controller)
           /\ resp'[last_done'.cmd.id].val = last_done'.res
           /\ cache' = cache
           /\ axes' = axes)]_vars

\* the Move of an axis without acceleration was rejected while its position was cached
C24_Witness ==
    /\ last_done.cmd.kind = "Move" /\ last_done.cmd.axis = "Z"
    /\ last_done.res = Err("Axis Z does not support acceleration parameter")
    /\ CacheHas(cache, "c1::Z::position")

(***************************************************************************)
(* C25: the step that answers a GetAvailableParams or a                    *)
(* GetSupportedMovementParams leaves the cache as it is and, when it       *)
(* succeeds, has called the backend, whatever the cache holds; the list    *)
(* returned is the one the axis gives, and the same query run again on the *)
(* same registry returns the same result.                                  *)
(***************************************************************************)
C25_CapabilitiesNotCached ==
    /\ [][(last_done' # last_done
            /\ last_done'.cmd.kind \in {"GetAvailableParams", "GetSupportedMovementParams"}) =>
            LET cmd == last_done'.cmd
                res == last_done'.res
                again == IF cmd.kind = "GetAvailableParams"
                         THEN handle_get_available_params(controllers', cache', cmd.controller, cmd.axis)
                         ELSE handle_get_supported_movement_params(controllers', cache',
                                                                   cmd.controller, cmd.axis)
            IN  /\ cache' = cache
                /\ res.ok => events' = events \o <<[type |-> "backend", id |-> cmd.id],
                                                   [type |-> "resp", id |-> cmd.id]>>
                /\ again.res = res /\ again.backend = res.ok
                /\ again.cache = cache']_vars
    /\ [](/\ handle_get_available_params(controllers, cache, "c1", "X").res.list
                = <<"velocity", "max_position", "min_position", "position",
                    "supports_acceleration", "acceleration">>
          /\ handle_get_supported_movement_params(controllers, cache, "c1", "X").res.list
                = <<"velocity", "acceleration", "deceleration">>)

\* the same capability query was answered twice with the same list, a cached read between
C25_Witness ==
    /\ last_done.cmd.id = 3 /\ last_done.cmd.kind = "GetAvailableParams" /\ last_done.res.ok
    /\ resp[1].val = last_done.res
    /\ cache # EmptyCache
    /\ Len(events) = 6 /\ events[5] = [type |-> "backend", id |-> 3]

(***************************************************************************)
(* SpecTrait: a controller that keeps the methods MotorController          *)
(* provides, over the three axes, with any set of axes whose stop fails;   *)
(* get_attribute for present and absent axes and for listed and unlisted   *)
(* attribute names, and shutdown.                                          *)
(***************************************************************************)
\* the controller is built over axes of which any may fail to stop
InitTrait == MInit /\ SInit /\ \E fails \in SUBSET AxisNames : trait_call = NoCall(fails)

NextTrait ==
    \/ \E inst \in Instances, axis \in AxisNames \cup {"Q"},
          attribute \in {"velocity", "acceleration", "position", "supports_acceleration",
                         "status", "bogus"} : get_attribute(inst, axis, attribute)
    \/ \E inst \in Instances : controller_shutdown(inst)

SpecTrait == InitTrait /\ [][NextTrait]_vars

(***************************************************************************)
(* C26: the provided get_attribute(axis, attribute) fails with "Axis not   *)
(* found" and calls no axis method when the axis does not exist; for an    *)
(* axis that exists it first fetches the list of available attributes,     *)
(* and when the name is not in it returns "Attribute not supported"        *)
(* without calling the axis's get_attribute; only for a listed name does   *)
(* it call the axis's get_attribute, whose result it returns.              *)
(***************************************************************************)
C26_GetAttributeChecksList ==
    trait_call.op = "get_attribute" =>
        LET axis == trait_call.axis
            attribute == trait_call.attribute
            Listed(name, list) == \E i \in 1..Len(list) : list[i] = name
        IN  /\ axis \notin AxisNames =>
                /\ trait_call.result = Err("Axis not found: " \o axis \o " in controller " \o trait_call.inst)
                /\ trait_call.calls = <<>>
            /\ (axis \in AxisNames /\ ~Listed(attribute, axis_get_available_params(axis))) =>
                /\ trait_call.result = Err("Attribute not supported: " \o attribute)
                /\ trait_call.calls = <<"get_available_params">>
            /\ (axis \in AxisNames /\ Listed(attribute, axis_get_available_params(axis))) =>
                /\ trait_call.calls = <<"get_available_params", "get_attribute">>
                /\ trait_call.result = axis_get_attribute(axes[trait_call.inst][axis], axis, attribute)

\* acceleration was asked of the axis that does not list it: the axis was not asked
C26_Witness ==
    /\ trait_call.op = "get_attribute" /\ trait_call.axis = "Z" /\ trait_call.attribute = "acceleration"
    /\ trait_call.result = Err("Attribute not supported: acceleration")
    /\ trait_call.calls = <<"get_available_params">>

(***************************************************************************)
(* C27: the provided shutdown stops the axes in the order of axes() up to  *)
(* and including the first whose stop fails, and returns that failure; the *)
(* axes after it are not stopped; when no stop fails it returns success    *)
(* and has stopped every axis exactly once.                                *)
(***************************************************************************)
C27_ShutdownStopsInOrder ==
    trait_call.op = "shutdown" =>
        LET failing == {i \in 1..Len(MockAxes) : MockAxes[i] \in trait_call.fails}
            first == CHOOSE i \in failing : \A j \in failing : i <= j
        IN  /\ failing = {} =>
                /\ trait_call.result.ok
                /\ trait_call.calls = MockAxes
            /\ failing # {} =>
                /\ trait_call.result = StopError(MockAxes[first])
                /\ trait_call.calls = SubSeq(MockAxes, 1, first)

\* the stop of the second axis failed: the third axis was not stopped
C27_Witness ==
    /\ trait_call.op = "shutdown"
    /\ trait_call.fails = {"Y", "Z"}
    /\ trait_call.calls = <<"X", "Y">>
    /\ trait_call.result = StopError("Y")

(***************************************************************************)
(* C28: when a Move with movement parameters starts the motion of a mock   *)
(* axis, the time start sleeps is the distance between the position the    *)
(* axis had before the Move and the target, over the requested velocity    *)
(* or else the axis's default velocity; over a distance that is not zero   *)
(* the time is not zero.                                                   *)
(***************************************************************************)
C28_MotionTimeFromDistance ==
    [][(loop_pc = "handle" /\ loop_pc' = "sleep" /\ cur.params.given) =>
          LET before == axes[Lookup(controllers, cur.controller)][cur.axis].position
              distance == IF cur.target >= before THEN cur.target - before ELSE before - cur.target
              velocity == IF cur.params.p.velocity.some THEN cur.params.p.velocity.v ELSE MockVelocity
          IN  /\ sleep_ms' = (distance * 1000) \div velocity
              /\ distance # 0 => sleep_ms' > 0]_vars

\* the first Move, with parameters, away from the initial position: start sleeps no time
C28_Witness ==
    /\ loop_pc = "sleep" /\ cur.id = 1 /\ cur.kind = "Move"
    /\ cur.params.given /\ cur.target # NewAxis.position
    /\ axes["m1"][cur.axis].state = "Moving"
    /\ sleep_ms = 0

(***************************************************************************)
(* C29: a GetAttr for (controller, axis, attribute) that succeeds returns  *)
(* a number that get_attribute gives for that triple, and never what a     *)
(* GetState or a GetPos stored; a GetState that succeeds returns a state   *)
(* snapshot: no entry written by one kind of query is served to another.   *)
(***************************************************************************)
C29_KindsKeepApart ==
    [][(last_done' # last_done /\ last_done'.res.ok) =>
          LET cmd == last_done'.cmd
              res == last_done'.res
          IN  /\ cmd.kind = "GetAttr" =>
                    /\ res.val.t = "number"
                    /\ controller_get_attribute(axes, Lookup(controllers, cmd.controller),
                                                cmd.axis, cmd.attr).ok
              /\ cmd.kind = "GetState" => res.val.t = "object"]_vars

\* a GetAttr for the attribute named "status" was answered with the snapshot a GetState cached
C29_Witness ==
    /\ last_done.cmd.kind = "GetAttr" /\ last_done.cmd.attr = "status"
    /\ last_done.res.ok /\ last_done.res.tag = "value"
    /\ last_done.res.val = JStatus("On", "None")
    /\ ~controller_get_attribute(axes, "m1", "X", "status").ok

(***************************************************************************)
(* C30: no handler misses the shutdown signal: once the acceptance loop    *)
(* has exited, every handler whose loop is still running holds the signal  *)
(* unread, whenever its connection was accepted and its receiver created.  *)
(***************************************************************************)
C30_NoHandlerMissesShutdown ==
    accept_pc = "exited" => \A c \in Conns : HandlerLive(c) => c \in sig

\* shutdown was called and the acceptance loop has exited; a handler spawned after the
\* broadcast waits at its select with no signal to read, its client still connected
C30_Witness ==
    /\ accept_pc = "exited" /\ ~socket_file
    /\ \E c \in Conns : conn[c] = "select" /\ c \notin sig /\ ~peer_closed[c] /\ inbox[c] = <<>>

(***************************************************************************)
(* C31: register_controller and unregister_controller, and with the latter *)
(* the shutdown of the controller removed, take effect only while no       *)
(* command is inside its backend call: such a step finds the dispatch loop *)
(* outside start and leaves the loop, its command and the axes alone; a    *)
(* command inside its backend call has its controller registered, and the  *)
(* step that ends the call finds the registry unchanged.                   *)
(***************************************************************************)
C31_RegistryLockedDuringCommand ==
    /\ [][(controllers' # controllers \/ admin' # admin) =>
            (loop_pc # "sleep" /\ loop_pc' = loop_pc /\ cur' = cur /\ axes' = axes)]_vars
    /\ [](loop_pc = "sleep" =>
            /\ Lookup(controllers, cur.controller) # NoCtrl
            /\ axes[Lookup(controllers, cur.controller)][cur.axis].state = "Moving")
    /\ [][(loop_pc = "sleep" /\ loop_pc' # "sleep") =>
            (controllers' = controllers /\ admin' = admin /\ last_done'.cmd = cur /\ last_done'.res.ok)]_vars

\* a Move of c2 ran to its end and was acknowledged; c2 was then unregistered and shut down
C31_Witness ==
    /\ last_done.cmd.kind = "Move" /\ last_done.cmd.controller = "c2" /\ last_done.res.ok
    /\ admin.op = "unregister" /\ admin.name = "c2" /\ admin.shutdowns = 1
    /\ controllers["c2"] = NoCtrl
    /\ axes["m2"]["X"] = [position |-> 10, state |-> "On"]

(***************************************************************************)
(* SpecProgress: the commands and administrative calls of SpecNotFound,    *)
(* with the dispatch loop's task scheduled and every backend call          *)
(* returning.                                                              *)
(***************************************************************************)
SpecProgress ==
    Init /\ [][NextNotFound]_vars
         /\ WF_vars(Recv) /\ WF_vars(DoMove) /\ WF_vars(MoveDone) /\ WF_vars(DoStop)
         /\ WF_vars(DoGetPos) /\ WF_vars(DoGetAvailableParams)
         /\ WF_vars(DoGetSupportedMovementParams) /\ WF_vars(DoListAxes)

C33_ErrorsNotCached ==
    /\ [][(last_done' # last_done /\ IsCachedRead(last_done'.cmd) /\ ~last_done'.res.ok)
            => cache' = cache]_vars
    /\ [](\A cmd \in { GetPos("c1", "Q"), GetState("c1", "Q"), GetAttr("c1", "Q", "velocity"),
                       GetAttr("c1", "X", "bogus"), GetAttr("c1", "Z", "acceleration"),
                       GetPos("c2", "X"), GetState("c2", "X"), GetAttr("c2", "X", "velocity"),
                       GetPos("c1", "X"), GetState("c1", "X"), GetAttr("c1", "X", "velocity") } :
            LET out == RunRead(controllers, axes, cache, now, cmd)
            IN  ~out.res.ok => (out.cache = cache /\ ~CacheHas(cache, KeyOf(cmd))))
    /\ [](\A k \in DOMAIN cache :
            /\ cache[k].val.t \in {"number", "object"}
            /\ k \in {"c1::X::position", "c1::X::status", "c1::X::velocity"})

\* a GetAttr the backend could not read was answered with the error, the cache holding
\* what it held
C33_Witness ==
    /\ last_done.cmd.kind = "GetAttr" /\ last_done.res = Err("Unknown parameter: bogus")
    /\ cache = last_done.before /\ cache # EmptyCache
    /\ ~CacheHas(cache, "c1::X::bogus")

(***************************************************************************)
(* C34: register_controller and unregister_controller leave the cache as   *)
(* it is; an entry cached for a controller name is returned by GetPos,     *)
(* GetState and GetAttr for that name, without a backend call, whether the *)
(* name is now unbound or bound to another controller.                     *)
(***************************************************************************)
C34_AdminKeepsCache ==
    /\ [][(admin' # admin \/ controllers' # controllers) => cache' = cache]_vars
    /\ [](\A cmd \in {r \in CacheRequests : IsCachedRead(r)} :
            CacheHas(cache, KeyOf(cmd)) =>
                LET out == RunRead(controllers, axes, cache, now, cmd)
                IN  /\ out.res.ok /\ out.res.val = CacheGet(cache, KeyOf(cmd))
                    /\ ~out.backend /\ out.cache = cache)

\* c1 is bound to a second controller whose axis X is at 0, and the position 10 cached
\* from the first controller is what GetPos returned
C34_Witness ==
    /\ admin.op = "register" /\ admin.name = "c1" /\ admin.inst = "m2" /\ controllers["c1"] = "m2"
    /\ axes["m2"]["X"].position = 0
    /\ CacheHas(cache, "c1::X::position") /\ CacheGet(cache, "c1::X::position") = JNum(10)
    /\ last_done.cmd.kind = "GetPos" /\ last_done.res.val = JNum(10)
    /\ CacheHas(last_done.before, "c1::X::position")

(***************************************************************************)
(* SpecPing: a session that sends pings, while the dispatch loop executes  *)
(* Moves forwarded by another caller of send_command and the controller    *)
(* they name is unregistered and registered again.                         *)
(***************************************************************************)
NextPing ==
    \/ Start
    \/ \E c \in SessionConns : ClientConnect(c)
    \/ \E c \in SessionConns, line \in {Ping(SomeId("a")), Ping(NoId)} : ClientSend(c, line)
    \/ \E c \in SessionConns : ClientRead(c)
    \/ \E c \in SessionConns : AcceptConn(c)
    \/ Admit
    \/ \E c \in SessionConns : HandlerRead(c)
    \/ \E c \in SessionConns : HandlerSend(c)
    \/ send_command(Move("c1", "X", 10, NoParams))
    \/ Recv
    \/ DoMove
    \/ MoveDone
    \/ register_controller("c1", "m1")
    \/ unregister_controller("c1", TRUE)

SpecPing == Init /\ [][NextPing]_vars

(***************************************************************************)
(* C35: the step of a session that reads a ping enqueues no command and    *)
(* creates no response channel, and holds a success with the pong and the  *)
(* id of the ping for it, whatever the registry contains and wherever the  *)
(* dispatch loop is; a session with a ping to read can read it, and one    *)
(* with the answer to write can write it, also while the loop is inside    *)
(* the backend call of another caller's command; each ping read is         *)
(* answered with a success.                                                *)
(***************************************************************************)
C35_PingAnsweredLocally ==
    /\ [][\A c \in SessionConns :
            (Len(session_log'[c]) = Len(session_log[c]) + 1
                /\ session_log'[c][Len(session_log'[c])].op = "read"
                /\ session_log'[c][Len(session_log'[c])].kind = "ping")
            => (/\ queue' = queue /\ nextId' = nextId /\ resp' = resp
                /\ loop_pc' = loop_pc /\ cur' = cur
                /\ conn'[c] = "send"
                /\ pending'[c].cmd = 0
                /\ pending'[c].response.status = "success"
                /\ pending'[c].response.data.ok /\ pending'[c].response.data.tag = "pong"
                /\ pending'[c].response.id = session_log'[c][Len(session_log'[c])].id)]_vars
    /\ [](\A c \in SessionConns :
            /\ (conn[c] = "select" /\ inbox[c] # <<>>) => ENABLED HandlerRead(c)
            /\ (conn[c] = "send" /\ ~peer_closed[c] /\ Len(outbox[c]) < SockBuf) => ENABLED HandlerSend(c)
            /\ \A i \in 1..Len(session_log[c]) :
                  (i % 2 = 0 /\ session_log[c][i - 1].kind = "ping") =>
                      (session_log[c][i].kind = "success" /\ session_log[c][i].id = session_log[c][i - 1].id))

\* the loop is inside the backend call of a Move; the session has answered one ping and
\* holds the pong for the next
C35_Witness ==
    /\ loop_pc = "sleep" /\ resp[cur.id].state = "waiting"
    /\ Len(session_log[1]) = 3
    /\ session_log[1][2] = [op |-> "write", kind |-> "success", id |-> NoId]
    /\ conn[1] = "send"
    /\ pending[1].response = Success(SomeId("a"), Ok("pong", JNull, NoList, {}))

=============================================================================
